---- MODULE Spec2Model ----
(***************************************************************************)
(* A model of quikcli.py: the line wrapper (line_split), the box renderer  *)
(* (quikcli._display_prompt) and the prompt engine (quikcli.prompt_user).  *)
(*                                                                         *)
(* A Python str is a sequence of one-character strings.  An optional       *)
(* argument is a record [given, value]; given = FALSE is Python's None.    *)
(* Three specifications share the variables:                               *)
(*   SpecWrap  one call of line_split, one action per outer-loop pass      *)
(*   SpecBox   one call of _display_prompt                                 *)
(*   Spec      the engine: calls of prompt_user, one action per blocking   *)
(*             step of the loop                                            *)
(***************************************************************************)
EXTENDS Integers, Sequences, FiniteSets, TLC

VARIABLES
    \* ---- line_split frame
    text,              \* parameter text
    max_length,        \* parameter max_length
    lines,             \* local lines
    remaining_text,    \* local remaining_text
    cuts,              \* history: how each element of lines was produced
    ls_pc,             \* "off" | "loop" | "done"
    \* ---- _display_prompt frame
    dp_args,           \* [query, max_width, options, header]
    dp_out,            \* the rows printed, in order
    dp_raised,         \* TRUE when the call ended in IndexError
    dp_pc,             \* "off" | "call" | "done"
    \* ---- engine instance and prompt_user frame
    self,              \* the instance attributes set by __init__
    args,              \* the arguments of the running prompt_user call
    response_required, \* local response_required
    error_message,     \* local error_message (optional string)
    response,          \* local response (after the last assignment)
    result,            \* the value returned
    screen,            \* what the current iteration has written / asked
    renders,           \* history: clear+render passes of this call
    reads,             \* history: input lines consumed by this call
    invalid_reads,     \* history: consumed lines that are Invalid for the call
    last_outcome,      \* history: outcome of the latest validation
    earlier_invalid,   \* history: an earlier call on this instance got an Invalid
    source,            \* the input source: a terminal, or a script of lines
    twin,              \* history: how the first call on a scripted source ended
    pc                 \* "idle" | "render" | "read_first" | "read" | "returned" | "raised" | "off"

lsVars == <<text, max_length, lines, remaining_text, cuts, ls_pc>>
dpVars == <<dp_args, dp_out, dp_raised, dp_pc>>
puVars == <<self, args, response_required, error_message, response, result,
            screen, renders, reads, invalid_reads, last_outcome, earlier_invalid, source, twin, pc>>
vars == <<lsVars, dpVars, puVars>>

----------------------------------------------------------------------------
(* Bounds *)

MaxTextLen == 5      \* longest text given to line_split
MaxLength == 3       \* largest max_length given to line_split

----------------------------------------------------------------------------
(* Strings *)

RECURSIVE SeqsUpTo(_, _)
SeqsUpTo(S, n) ==
    IF n = 0 THEN {<<>>}
    ELSE LET shorter == SeqsUpTo(S, n - 1)
         IN  shorter \cup {Append(s, c) : s \in {t \in shorter : Len(t) = n - 1}, c \in S}

\* s[lo:hi] with 0 <= lo (Python slice, hi clamped to len(s))
Slice(s, lo, hi) ==
    LET h == IF hi > Len(s) THEN Len(s) ELSE hi
    IN  IF lo >= h THEN <<>> ELSE SubSeq(s, lo + 1, h)

RECURSIVE Concat(_)
Concat(ss) == IF ss = <<>> THEN <<>> ELSE Head(ss) \o Concat(Tail(ss))

Whitespace == {" ", "\t"}

isspace(c) == c \in Whitespace

----------------------------------------------------------------------------
(* line_split *)

\* a variant that splits after the whitespace it found
RECURSIVE ScanBack_AfterSpace(_, _, _)
ScanBack_AfterSpace(remaining, split_point, maxlen) ==
    IF isspace(remaining[split_point + 1])
    THEN [point |-> split_point + 1, hard |-> FALSE, read |-> {split_point}]
    ELSE IF split_point - 1 = 0
         THEN [point |-> maxlen, hard |-> TRUE, read |-> {split_point}]
         ELSE [ScanBack_AfterSpace(remaining, split_point - 1, maxlen) EXCEPT !.read = @ \cup {split_point}]

\* a variant that gives up one index early and never tests index 1
RECURSIVE ScanBack_StopsAtOne(_, _, _)
ScanBack_StopsAtOne(remaining, split_point, maxlen) ==
    IF isspace(remaining[split_point + 1])
    THEN [point |-> split_point, hard |-> FALSE, read |-> {split_point}]
    ELSE IF split_point - 1 <= 1
         THEN [point |-> maxlen, hard |-> TRUE, read |-> {split_point}]
         ELSE [ScanBack_StopsAtOne(remaining, split_point - 1, maxlen) EXCEPT !.read = @ \cup {split_point}]

\* The backward scan of one outer-loop pass.  split_point is the 0-based
\* index being tested; the result is the split point, whether the scan left
\* through the break, and (history) the indices the scan has tested.
RECURSIVE ScanBack(_, _, _)
ScanBack(remaining, split_point, maxlen) ==
    IF isspace(remaining[split_point + 1])
    THEN [point |-> split_point, hard |-> FALSE, read |-> {split_point}]
    ELSE IF split_point - 1 = 0
         THEN [point |-> maxlen, hard |-> TRUE, read |-> {split_point}]
         ELSE [ScanBack(remaining, split_point - 1, maxlen) EXCEPT !.read = @ \cup {split_point}]

\* a variant that starts the scan at the last index of the remaining text
SplitPoint_FromEnd(remaining, maxlen) == ScanBack(remaining, Len(remaining) - 1, maxlen)

\* `split_point = max_length` and the scan
SplitPoint(remaining, maxlen) == ScanBack(remaining, maxlen, maxlen)

RECURSIVE line_split(_, _)
line_split(txt, maxlen) ==
    IF Len(txt) > maxlen
    THEN LET sp == SplitPoint(txt, maxlen).point
         IN  <<Slice(txt, 0, sp)>> \o line_split(Slice(txt, sp, Len(txt)), maxlen)
    ELSE <<txt>>

WrapAlphabet == {"a", "b", "c", " "}

WrapTexts == SeqsUpTo(WrapAlphabet, MaxTextLen)

\* a variant that drops the whitespace it split at
SplitStep_DropSpace ==
    /\ ls_pc = "loop"
    /\ Len(remaining_text) > max_length
    /\ LET sp == SplitPoint(remaining_text, max_length)
       IN  /\ lines' = Append(lines, Slice(remaining_text, 0, sp.point))
           /\ cuts' = Append(cuts, IF sp.hard THEN "hard" ELSE "space")
           /\ remaining_text' = Slice(remaining_text, sp.point + (IF sp.hard THEN 0 ELSE 1),
                                      Len(remaining_text))
    /\ UNCHANGED <<text, max_length, ls_pc>>

\* one pass of the outer while loop
SplitStep ==
    /\ ls_pc = "loop"
    /\ Len(remaining_text) > max_length
    /\ LET sp == SplitPoint(remaining_text, max_length)
       IN  /\ lines' = Append(lines, Slice(remaining_text, 0, sp.point))
           /\ cuts' = Append(cuts, IF sp.hard THEN "hard" ELSE "space")
           /\ remaining_text' = Slice(remaining_text, sp.point, Len(remaining_text))
    /\ UNCHANGED <<text, max_length, ls_pc>>

\* loop exit, the final append and the return
SplitFinish ==
    /\ ls_pc = "loop"
    /\ ~(Len(remaining_text) > max_length)
    /\ lines' = Append(lines, remaining_text)
    /\ cuts' = Append(cuts, "final")
    /\ ls_pc' = "done"
    /\ UNCHANGED <<text, max_length, remaining_text>>

----------------------------------------------------------------------------
(* Optional values: given = FALSE is None *)

Some(v) == [given |-> TRUE, value |-> v]
NoneStr == [given |-> FALSE, value |-> <<>>]      \* None where a str is expected
NoneList == [given |-> FALSE, value |-> <<>>]     \* None where a list is expected
NoneInt == [given |-> FALSE, value |-> 0]         \* None where an int is expected
NoneBool == [given |-> FALSE, value |-> FALSE]    \* None where a bool is expected
NoneMsg == [given |-> FALSE, value |-> ""]        \* None where a message is expected

\* Python truthiness of an optional str or list: None and the empty value are false
Truthy(o) == o.given /\ o.value # <<>>

----------------------------------------------------------------------------
(* _display_prompt *)

DEFAULT_MAX_LINES == 30
DEFAULT_H_BORDER == <<"-">>
DEFAULT_V_BORDER == <<"|">>

RECURSIVE Repeat(_, _)
Repeat(s, n) == IF n <= 0 THEN <<>> ELSE s \o Repeat(s, n - 1)

\* the format spec {s:<w}: pad on the right to width w, never truncate
PadRight(s, w) == s \o Repeat(<<" ">>, w - Len(s))

DigitChars == <<"0", "1", "2", "3", "4", "5", "6", "7", "8", "9">>

\* str(n) for n >= 0, as {i + 1} formats it
RECURSIVE IntToStr(_)
IntToStr(n) ==
    IF n < 10 THEN <<DigitChars[n + 1]>>
    ELSE IntToStr(n \div 10) \o <<DigitChars[(n % 10) + 1]>>

\* [option[i:i + max_len] for i in range(0, len(option), max_len)]
RECURSIVE Chunks(_, _)
Chunks(option, max_len) ==
    IF Len(option) = 0 THEN <<>>
    ELSE <<Slice(option, 0, max_len)>> \o Chunks(Slice(option, max_len, Len(option)), max_len)

HeaderRow(v_border, line, max_len) ==
    v_border \o <<" ">> \o PadRight(line, max_len) \o <<" ">> \o v_border

QueryRow(line, max_len) ==
    <<"|", " ">> \o PadRight(line, max_len) \o <<" ", "|">>

OptionFirstRow(i, chunk, max_len) ==
    <<"|", " ">> \o IntToStr(i + 1) \o <<" ", "-", " ">> \o PadRight(chunk, max_len) \o <<" ", "|">>

OptionNextRow(chunk, max_len) ==
    <<"|", " ", " ", " ", " ", " ">> \o PadRight(chunk, max_len) \o <<" ", "|">>

\* the rows of the options from 0-based position i on; raised when chunks[0]
\* does not exist (IndexError), which ends the call after the rows so far
RECURSIVE OptionRows(_, _, _)
OptionRows(options, i, max_len) ==
    IF i >= Len(options) THEN [rows |-> <<>>, raised |-> FALSE]
    ELSE LET chunks == Chunks(options[i + 1], max_len)
         IN  IF chunks = <<>> THEN [rows |-> <<>>, raised |-> TRUE]
             ELSE LET rest == OptionRows(options, i + 1, max_len)
                  IN  [rows |-> <<OptionFirstRow(i, chunks[1], max_len)>>
                                \o [j \in 1..(Len(chunks) - 1) |-> OptionNextRow(chunks[j + 1], max_len)]
                                \o rest.rows,
                       raised |-> rest.raised]

\* the rows _display_prompt prints and whether it raised; eng is the instance
display_prompt(eng, query, max_width, options, header) ==
    LET max_len == max_width - 4
        top_bottom_border == Repeat(eng.h_border, max_width)
        internal_divider == eng.v_border \o Repeat(eng.i_border, max_width - 2) \o eng.v_border
        blank_row == eng.v_border \o Repeat(<<" ">>, max_width - 2) \o eng.v_border
        header_lines == line_split(header.value, max_len)
        header_rows == IF Truthy(header)
                       THEN [k \in 1..Len(header_lines) |-> HeaderRow(eng.v_border, header_lines[k], max_len)]
                            \o <<blank_row>>
                       ELSE <<>>
        question_lines == line_split(query, max_len)
        question_rows == [k \in 1..Len(question_lines) |-> QueryRow(question_lines[k], max_len)]
        opt == IF Truthy(options)
               THEN OptionRows(options.value, 0, max_len - 4)
               ELSE [rows |-> <<>>, raised |-> FALSE]
        option_rows == IF Truthy(options) THEN <<internal_divider>> \o opt.rows ELSE <<>>
    IN  [rows |-> <<top_bottom_border>> \o header_rows \o question_rows \o option_rows
                  \o (IF opt.raised THEN <<>> ELSE <<top_bottom_border>>),
         raised |-> opt.raised]

MaxBoxWidth == 10    \* widest box given to _display_prompt
MaxBoxText == 3      \* longest query given to _display_prompt
MaxOptions == 10     \* longest option list given to _display_prompt

BoxEngines ==
    { [v_border |-> v, h_border |-> h, i_border |-> h,
       max_screen_width |-> MaxBoxWidth, max_lines |-> DEFAULT_MAX_LINES, default_required |-> TRUE,
       app_header |-> NoneStr, warn_screen_clear |-> TRUE] :
      v \in {DEFAULT_V_BORDER, <<"#">>}, h \in {DEFAULT_H_BORDER} }

BoxTexts == SeqsUpTo({"a", " "}, MaxBoxText)

BoxHeaders == {NoneStr, Some(<<>>), Some(<<"h">>), Some(<<"h", " ", "h", "h">>)}

OptionTexts == {<<>>, <<"x">>, <<"x", "y", "z">>}

\* lists of n options, all alike except at most one
OptionLists ==
    { [i \in 1..n |-> IF i = k THEN a ELSE b] :
        n \in 1..MaxOptions, k \in 0..MaxOptions, a \in OptionTexts, b \in OptionTexts }

BoxArgs ==
    [ query : BoxTexts, max_width : 5..MaxBoxWidth, options : {NoneList, Some(<<>>)},
      header : BoxHeaders ]
    \cup
    [ query : BoxTexts, max_width : 9..MaxBoxWidth, options : {Some(l) : l \in OptionLists},
      header : BoxHeaders ]

\* the call of _display_prompt, for SpecBox
DisplayPrompt ==
    /\ dp_pc = "call"
    /\ LET r == display_prompt(self, dp_args.query, dp_args.max_width, dp_args.options, dp_args.header)
       IN  /\ dp_out' = r.rows
           /\ dp_raised' = r.raised
    /\ dp_pc' = "done"
    /\ UNCHANGED dp_args

----------------------------------------------------------------------------
(* prompt_user: the texts *)

WARN_NOTE == "Note: Attempting to clear screen. Please use a standard terminal emulator."

PROMPT_MENU_REQUIRED == "Enter your selection number: "
PROMPT_MENU_OPTIONAL == "Enter your selection number [enter nothing to skip]: "
PROMPT_YN_REQUIRED == "Enter <yes/no>: "
PROMPT_YN_OPTIONAL == "Enter <yes/no/leave blank>: "
PROMPT_INT_REQUIRED == "Enter digits only, no commas or symbols: "
PROMPT_INT_OPTIONAL == "Enter digits only, no commas or symbols [enter nothing to skip]: "
PROMPT_FREE_REQUIRED == ": "
PROMPT_FREE_OPTIONAL == "[enter nothing to skip]: "

MSG_YN == "Invalid Input: Response must start with 'y' or 'n'"
MSG_SKIP == "Invalid Input: Question cannot be skipped"
MSG_DIGITS == "Invalid Input: Response must contain only digits 0-9"

\* Input_Formats, and None for an absent input_format
FMT_YN == "y/n"
FMT_NUMERIC == "numeric"
FMT_INTEGER == "int"
FMT_NONE == "None"

----------------------------------------------------------------------------
(* prompt_user: str methods used on the response *)

RECURSIVE lstrip(_)
lstrip(s) == IF s # <<>> /\ isspace(Head(s)) THEN lstrip(Tail(s)) ELSE s

RECURSIVE rstrip(_)
rstrip(s) == IF s # <<>> /\ isspace(s[Len(s)]) THEN rstrip(SubSeq(s, 1, Len(s) - 1)) ELSE s

strip(s) == rstrip(lstrip(s))

\* str.lower() of one character, over the letters the model feeds
lower(c) ==
    CASE c = "Y" -> "y"
      [] c = "N" -> "n"
      [] OTHER -> c

DigitValue(c) == CHOOSE d \in 0..9 : DigitChars[d + 1] = c

isdecimal(s) == s # <<>> /\ \A k \in 1..Len(s) : \E d \in 1..10 : DigitChars[d] = s[k]

\* int(s) for a decimal s
RECURSIVE int(_)
int(s) == IF s = <<>> THEN 0 ELSE 10 * int(SubSeq(s, 1, Len(s) - 1)) + DigitValue(s[Len(s)])

----------------------------------------------------------------------------
(* prompt_user: return values and validation *)

RetNone == [kind |-> "None", b |-> FALSE, n |-> 0, s |-> <<>>]
RetBool(v) == [kind |-> "bool", b |-> v, n |-> 0, s |-> <<>>]
RetInt(v) == [kind |-> "int", b |-> FALSE, n |-> v, s |-> <<>>]
RetStr(v) == [kind |-> "str", b |-> FALSE, n |-> 0, s |-> v]
NoReturn == [kind |-> "unset", b |-> FALSE, n |-> 0, s |-> <<>>]

Return(v) == [returns |-> TRUE, value |-> v, message |-> ""]
Invalid(m) == [returns |-> FALSE, value |-> NoReturn, message |-> m]
NoOutcome == [returns |-> FALSE, value |-> NoReturn, message |-> ""]

\* a variant that compares the first character without lower()
ValidateYN_CaseSensitive(resp, required) ==
    IF Len(resp) > 0
    THEN IF resp[1] = "y" THEN Return(RetBool(TRUE))
         ELSE IF resp[1] = "n" THEN Return(RetBool(FALSE))
         ELSE Invalid(MSG_YN)
    ELSE IF required THEN Invalid(MSG_SKIP)
    ELSE Return(RetNone)

ValidateYN(resp, required) ==
    IF Len(resp) > 0
    THEN IF lower(resp[1]) = "y" THEN Return(RetBool(TRUE))
         ELSE IF lower(resp[1]) = "n" THEN Return(RetBool(FALSE))
         ELSE Invalid(MSG_YN)
    ELSE IF required THEN Invalid(MSG_SKIP)
    ELSE Return(RetNone)

\* a variant that returns the digits unconverted
ValidateInteger_NoInt(resp, required) ==
    IF Len(resp) > 0
    THEN IF isdecimal(resp) THEN Return(RetStr(resp))
         ELSE Invalid(MSG_DIGITS)
    ELSE IF required THEN Invalid(MSG_SKIP)
    ELSE Return(RetNone)

ValidateInteger(resp, required) ==
    IF Len(resp) > 0
    THEN IF isdecimal(resp) THEN Return(RetInt(int(resp)))
         ELSE Invalid(MSG_DIGITS)
    ELSE IF required THEN Invalid(MSG_SKIP)
    ELSE Return(RetNone)

\* a variant that treats a blank optional answer as a skip
ValidateFree_SkipBlank(resp, required) ==
    IF required /\ Len(resp) = 0 THEN Invalid(MSG_SKIP)
    ELSE IF Len(resp) = 0 THEN Return(RetNone)
    ELSE Return(RetStr(resp))

ValidateFree(resp, required) ==
    IF required /\ Len(resp) = 0 THEN Invalid(MSG_SKIP)
    ELSE Return(RetStr(resp))

\* the validation block of one iteration, on the stripped response
Validate(input_format, resp, required) ==
    IF input_format = FMT_YN THEN ValidateYN(resp, required)
    ELSE IF input_format = FMT_INTEGER THEN ValidateInteger(resp, required)
    ELSE ValidateFree(resp, required)

----------------------------------------------------------------------------
(* prompt_user: the loop *)

MaxReads == 4        \* input lines one call may consume
MaxScript == 2       \* longest scripted sequence of input lines

\* the lines the input source may supply: blank lines, yes/no answers in
\* both cases and with trailing text, digit strings, and strings that are
\* neither, with and without surrounding whitespace
InputLines ==
    { <<>>,
      <<" ">>,
      <<"\t", " ">>,
      <<"y">>,
      <<" ", "Y", "e", "s", " ">>,
      <<"N">>,
      <<"n", "o", " ", "t", "h", "a", "n", "k", "s">>,
      <<"m", "a", "y", "b", "e">>,
      <<"b", "o", "g", "u", "s">>,
      <<"0", "4", "2">>,
      <<" ", "7", "\t">>,
      <<"4", ".", "2">>,
      <<"-", "5">>,
      <<"1", ",", "0">>,
      <<"4", " ", "2">>,
      <<"5", "n">> }

Engines ==
    { [v_border |-> DEFAULT_V_BORDER, h_border |-> DEFAULT_H_BORDER, i_border |-> DEFAULT_H_BORDER,
       max_screen_width |-> 12, max_lines |-> DEFAULT_MAX_LINES, default_required |-> TRUE,
       app_header |-> NoneStr, warn_screen_clear |-> TRUE],
      [v_border |-> DEFAULT_V_BORDER, h_border |-> DEFAULT_H_BORDER, i_border |-> DEFAULT_H_BORDER,
       max_screen_width |-> 12, max_lines |-> DEFAULT_MAX_LINES, default_required |-> FALSE,
       app_header |-> Some(<<"*">>), warn_screen_clear |-> FALSE] }

CallArgs ==
    [ query : {<<"o", "k", " ", "?">>},
      menu_options : {NoneList, Some(<<>>), Some(<< <<"a">>, <<"b", "c", "d">> >>)},
      input_format : {FMT_NONE, FMT_YN, FMT_NUMERIC, FMT_INTEGER},
      input_length : {NoneInt},
      screen_width : {NoneInt, Some(10)},
      header : {NoneStr, Some(<<"H">>)},
      required : {NoneBool, Some(TRUE), Some(FALSE)},
      instructions : {NoneMsg, Some(""), Some("> ")} ]

\* the input source: the terminal (any line may come next), or a script
Interactive == [scripted |-> FALSE, script |-> <<>>]
Scripted(sc) == [scripted |-> TRUE, script |-> sc]

\* the lines a script is made of
PairLines ==
    { <<"y">>,
      <<"b", "o", "g", "u", "s">>,
      <<"0", "4", "2">> }

Scripts == SeqsUpTo(PairLines, MaxScript)

\* the lines the next input() can return
NextLines ==
    IF ~source.scripted THEN InputLines
    ELSE IF reads < Len(source.script) THEN {source.script[reads + 1]}
         ELSE {}

\* no call on a scripted source has ended yet
NoTwin ==
    [stage |-> 0, input_format |-> FMT_NONE, required |-> FALSE, twice |-> FALSE,
     reads |-> 0, renders |-> 0, returned |-> FALSE, result |-> NoReturn]

Written(kind, row, msg) == [kind |-> kind, row |-> row, msg |-> msg]

\* `if instructions:`
HasInstructions(a) == a.instructions.given /\ a.instructions.value # ""

\* the branches whose first input() result is overwritten by a second input()
ReadsTwice(a) ==
    /\ ~HasInstructions(a)
    /\ ~Truthy(a.menu_options)
    /\ a.input_format \in {FMT_YN, FMT_INTEGER}

\* the prompt of the first input() of the branches that read twice
FirstPrompt(a) ==
    IF a.input_format = FMT_YN THEN PROMPT_YN_REQUIRED ELSE PROMPT_INT_REQUIRED

\* the prompt of the input() whose result is validated
LastPrompt(a, required) ==
    IF HasInstructions(a) THEN a.instructions.value
    ELSE IF Truthy(a.menu_options)
         THEN IF required THEN PROMPT_MENU_REQUIRED ELSE PROMPT_MENU_OPTIONAL
    ELSE IF a.input_format = FMT_YN
         THEN IF required THEN PROMPT_YN_REQUIRED ELSE PROMPT_YN_OPTIONAL
    ELSE IF a.input_format = FMT_INTEGER
         THEN IF required THEN PROMPT_INT_REQUIRED ELSE PROMPT_INT_OPTIONAL
    ELSE IF required THEN PROMPT_FREE_REQUIRED ELSE PROMPT_FREE_OPTIONAL

\* what clear_screen(warn) does to the display
ClearScreen(warn) ==
    (IF warn THEN <<Written("print", <<>>, WARN_NOTE)>> ELSE <<>>) \o <<Written("clear", <<>>, "")>>

\* print(self.app_header): None prints as the word None
AppHeaderRow(eng) ==
    IF eng.app_header.given THEN eng.app_header.value ELSE <<"N", "o", "n", "e">>

\* a variant that never shows the stored message
ErrorRows_Silent(msg) == <<>>

\* `if error_message: print(error_message)`
ErrorRows(msg) ==
    IF msg.given /\ msg.value # "" THEN <<Written("error", <<>>, msg.value)>> ELSE <<>>

\* a variant that ignores the per-call override
EffectiveRequired_DefaultOnly(eng, a) == eng.default_required

\* `if required is None`
EffectiveRequired(eng, a) ==
    IF ~a.required.given THEN eng.default_required ELSE a.required.value

\* a variant that ignores the per-call width
EffectiveWidth_ConfigOnly(eng, a) == eng.max_screen_width

\* `self.max_screen_width if screen_width is None else screen_width`
EffectiveWidth(eng, a) ==
    IF ~a.screen_width.given THEN eng.max_screen_width ELSE a.screen_width.value

\* the arguments a call can be made with: any, and for the second call on
\* a scripted source those with the first call's input_format and effective
\* required flag
Admissible ==
    IF twin.stage = 0 THEN CallArgs
    ELSE {a \in CallArgs : /\ a.input_format = twin.input_format
                           /\ EffectiveRequired(self, a) = twin.required}

\* a variant that keeps the per-call required flag and width in the instance
Call_StoresOverride ==
    /\ pc = "idle"
    /\ twin.stage < 2
    /\ \E a \in Admissible :
          /\ args' = a
          /\ response_required' = EffectiveRequired(self, a)
          /\ self' = [self EXCEPT !.default_required = EffectiveRequired(self, a),
                                  !.max_screen_width = IF ~a.screen_width.given THEN @
                                                       ELSE a.screen_width.value]
    /\ error_message' = NoneMsg
    /\ response' = <<>>
    /\ result' = NoReturn
    /\ screen' = <<>>
    /\ renders' = 0
    /\ reads' = 0
    /\ invalid_reads' = 0
    /\ last_outcome' = NoOutcome
    /\ pc' = "render"
    /\ UNCHANGED <<earlier_invalid, source, twin>>

\* entry of prompt_user up to the loop
Call ==
    /\ pc = "idle"
    /\ twin.stage < 2
    /\ \E a \in Admissible :
          /\ args' = a
          /\ response_required' = EffectiveRequired(self, a)
    /\ error_message' = NoneMsg
    /\ response' = <<>>
    /\ result' = NoReturn
    /\ screen' = <<>>
    /\ renders' = 0
    /\ reads' = 0
    /\ invalid_reads' = 0
    /\ last_outcome' = NoOutcome
    /\ pc' = "render"
    /\ UNCHANGED <<self, earlier_invalid, source, twin>>

\* top of an iteration: clear, header, box, error message, and the first
\* input() writes its prompt and blocks
Render ==
    /\ pc = "render"
    /\ LET width == EffectiveWidth(self, args)
           box == display_prompt(self, args.query, width, args.menu_options, args.header)
           shown == ClearScreen(self.warn_screen_clear)
                    \o <<Written("app_header", AppHeaderRow(self), "")>>
                    \o [k \in 1..Len(box.rows) |-> Written("box", box.rows[k], "")]
       IN  IF box.raised
           THEN /\ screen' = shown
                /\ pc' = "raised"
           ELSE /\ screen' = shown
                      \o ErrorRows(error_message)
                      \o <<Written("input", <<>>,
                                   IF ReadsTwice(args) THEN FirstPrompt(args)
                                   ELSE LastPrompt(args, response_required))>>
                /\ pc' = IF ReadsTwice(args) THEN "read_first" ELSE "read"
    /\ renders' = renders + 1
    /\ UNCHANGED <<self, args, response_required, error_message, response, result,
                   reads, invalid_reads, last_outcome, earlier_invalid, source, twin>>

\* history: one more consumed line, counted as invalid when validating it
\* for this call yields Invalid
Consumed(line) ==
    /\ reads' = reads + 1
    /\ invalid_reads' = invalid_reads +
          (IF Validate(args.input_format, strip(line), response_required).returns THEN 0 ELSE 1)

\* YesNo / Integer branch: the first input() returns, its value is assigned
\* to response, and the second input() writes its prompt and blocks
ReadFirst ==
    /\ pc = "read_first"
    /\ reads < MaxReads
    /\ \E line \in NextLines :
          /\ response' = line
          /\ Consumed(line)
    /\ screen' = Append(screen, Written("input", <<>>, LastPrompt(args, response_required)))
    /\ pc' = "read"
    /\ UNCHANGED <<self, args, response_required, error_message, result, renders, last_outcome,
                   earlier_invalid, source, twin>>

\* a variant that keeps the first error message of the call
ReadValidate_KeepsFirst ==
    /\ pc = "read"
    /\ reads < MaxReads
    /\ \E line \in NextLines :
          LET stripped == strip(line)
              outcome == Validate(args.input_format, stripped, response_required)
          IN  /\ response' = stripped
              /\ Consumed(line)
              /\ last_outcome' = outcome
              /\ IF outcome.returns
                 THEN /\ result' = outcome.value
                      /\ pc' = "returned"
                      /\ UNCHANGED error_message
                 ELSE /\ error_message' = IF error_message.given THEN error_message
                                          ELSE Some(outcome.message)
                      /\ pc' = "render"
                      /\ UNCHANGED result
    /\ UNCHANGED <<self, args, response_required, screen, renders, earlier_invalid, source, twin>>

\* a variant that accepts, with menu options, only the number of an option
\* and returns that option
ReadValidate_MenuChecked ==
    /\ pc = "read"
    /\ reads < MaxReads
    /\ \E line \in NextLines :
          LET stripped == strip(line)
              options == args.menu_options.value
              outcome == IF Truthy(args.menu_options)
                         THEN IF isdecimal(stripped) /\ int(stripped) \in 1..Len(options)
                              THEN Return(RetStr(options[int(stripped)]))
                              ELSE Invalid(MSG_DIGITS)
                         ELSE Validate(args.input_format, stripped, response_required)
          IN  /\ response' = stripped
              /\ Consumed(line)
              /\ last_outcome' = outcome
              /\ IF outcome.returns
                 THEN /\ result' = outcome.value
                      /\ pc' = "returned"
                      /\ UNCHANGED error_message
                 ELSE /\ error_message' = Some(outcome.message)
                      /\ pc' = "render"
                      /\ UNCHANGED result
    /\ UNCHANGED <<self, args, response_required, screen, renders, earlier_invalid, source, twin>>

\* the input() whose value is kept returns; strip; validate; return or loop
ReadValidate ==
    /\ pc = "read"
    /\ reads < MaxReads
    /\ \E line \in NextLines :
          LET stripped == strip(line)
              outcome == Validate(args.input_format, stripped, response_required)
          IN  /\ response' = stripped
              /\ Consumed(line)
              /\ last_outcome' = outcome
              /\ IF outcome.returns
                 THEN /\ result' = outcome.value
                      /\ pc' = "returned"
                      /\ UNCHANGED error_message
                 ELSE /\ error_message' = Some(outcome.message)
                      /\ pc' = "render"
                      /\ UNCHANGED result
    /\ UNCHANGED <<self, args, response_required, screen, renders, earlier_invalid, source, twin>>

\* input() on a script that has no line left raises EOFError, which
\* prompt_user does not catch
EndOfInput ==
    /\ pc \in {"read_first", "read"}
    /\ source.scripted
    /\ reads >= Len(source.script)
    /\ pc' = "raised"
    /\ UNCHANGED <<self, args, response_required, error_message, response, result, screen,
                   renders, reads, invalid_reads, last_outcome, earlier_invalid, source, twin>>

\* the call is over (a value returned, or an exception propagated): its frame
\* is gone and the instance is ready for the next call
Leave ==
    /\ pc \in {"returned", "raised"}
    /\ args' = CHOOSE a \in CallArgs : TRUE
    /\ response_required' = FALSE
    /\ error_message' = NoneMsg
    /\ response' = <<>>
    /\ result' = NoReturn
    /\ screen' = <<>>
    /\ renders' = 0
    /\ reads' = 0
    /\ invalid_reads' = 0
    /\ last_outcome' = NoOutcome
    /\ earlier_invalid' = (earlier_invalid \/ error_message.given)
    /\ twin' = IF ~source.scripted THEN twin
               ELSE IF twin.stage = 0
                    THEN [stage |-> 1,
                          input_format |-> args.input_format,
                          required |-> response_required,
                          twice |-> ReadsTwice(args),
                          reads |-> reads,
                          renders |-> renders,
                          returned |-> (pc = "returned"),
                          result |-> result]
                    ELSE [twin EXCEPT !.stage = 2]
    /\ pc' = "idle"
    /\ UNCHANGED <<self, source>>

----------------------------------------------------------------------------
(* Specifications *)

lsOff ==
    /\ text = <<>> /\ max_length = 1 /\ lines = <<>> /\ remaining_text = <<>>
    /\ cuts = <<>> /\ ls_pc = "off"

dpOff ==
    /\ dp_args = [query |-> <<>>, max_width |-> 0, options |-> NoneList, header |-> NoneStr]
    /\ dp_out = <<>> /\ dp_raised = FALSE /\ dp_pc = "off"

puFrame ==
    /\ args = CHOOSE a \in CallArgs : TRUE
    /\ response_required = FALSE /\ error_message = NoneMsg /\ response = <<>>
    /\ result = NoReturn /\ screen = <<>> /\ renders = 0 /\ reads = 0
    /\ invalid_reads = 0 /\ last_outcome = NoOutcome /\ earlier_invalid = FALSE
    /\ twin = NoTwin

puOff ==
    /\ puFrame
    /\ source = Interactive

\* the engine after __init__, no call made yet
Init ==
    /\ self \in Engines
    /\ puOff
    /\ pc = "idle"
    /\ lsOff
    /\ dpOff

Next ==
    \/ Call /\ UNCHANGED <<lsVars, dpVars>>
    \/ Render /\ UNCHANGED <<lsVars, dpVars>>
    \/ ReadFirst /\ UNCHANGED <<lsVars, dpVars>>
    \/ ReadValidate /\ UNCHANGED <<lsVars, dpVars>>
    \/ Leave /\ UNCHANGED <<lsVars, dpVars>>

Spec == Init /\ [][Next]_vars

\* the engine on a scripted input source: two calls of prompt_user, each fed
\* the same script, with the same input_format and the same effective
\* required flag
InitPair ==
    /\ self \in Engines
    /\ puFrame
    /\ source \in {Scripted(sc) : sc \in Scripts}
    /\ pc = "idle"
    /\ lsOff
    /\ dpOff

NextPair ==
    \/ Call /\ UNCHANGED <<lsVars, dpVars>>
    \/ Render /\ UNCHANGED <<lsVars, dpVars>>
    \/ ReadFirst /\ UNCHANGED <<lsVars, dpVars>>
    \/ ReadValidate /\ UNCHANGED <<lsVars, dpVars>>
    \/ EndOfInput /\ UNCHANGED <<lsVars, dpVars>>
    \/ Leave /\ UNCHANGED <<lsVars, dpVars>>

SpecPair == InitPair /\ [][NextPair]_vars

\* a call of line_split(text, max_length) with max_length >= 1
InitWrap ==
    /\ text \in WrapTexts
    /\ max_length \in 1..MaxLength
    /\ lines = <<>>
    /\ remaining_text = text
    /\ cuts = <<>>
    /\ ls_pc = "loop"
    /\ self = CHOOSE e \in Engines : e.default_required
    /\ puOff
    /\ pc = "off"
    /\ dpOff

NextWrap ==
    \/ SplitStep /\ UNCHANGED <<dpVars, puVars>>
    \/ SplitFinish /\ UNCHANGED <<dpVars, puVars>>

SpecWrap == InitWrap /\ [][NextWrap]_vars

\* line_split runs on: a call that can take a step takes it
SpecWrapFair == SpecWrap /\ WF_vars(NextWrap)

\* a call of _display_prompt on an instance with single-character glyphs,
\* with a width that leaves at least one column of content
InitBox ==
    /\ self \in BoxEngines
    /\ dp_args \in BoxArgs
    /\ dp_out = <<>>
    /\ dp_raised = FALSE
    /\ dp_pc = "call"
    /\ puOff
    /\ pc = "off"
    /\ lsOff

NextBox == DisplayPrompt /\ UNCHANGED <<lsVars, puVars>>

SpecBox == InitBox /\ [][NextBox]_vars

----------------------------------------------------------------------------
(* Properties *)

\* the call has no truthy menu options and no truthy instructions
PlainCall == ~Truthy(args.menu_options) /\ ~HasInstructions(args)

\* the effective required flag, from the call's argument and the instance
RequiredFlag == IF args.required.given THEN args.required.value ELSE self.default_required

\* response holds the stripped response of the latest validation
Validated == pc \in {"render", "returned"} /\ reads > 0

AllDigits(s) ==
    \A k \in 1..Len(s) : s[k] \in {"0", "1", "2", "3", "4", "5", "6", "7", "8", "9"}

RECURSIVE DropLeadingZeros(_)
DropLeadingZeros(s) ==
    IF Len(s) > 1 /\ Head(s) = "0" THEN DropLeadingZeros(Tail(s)) ELSE s

\* C1: a required YesNo call without menu options and without instructions,
\* having consumed k lines that are invalid for it and then one line that
\* starts with 'y', has returned true after exactly k+1 render passes and
\* k+1 lines read.
C1_RetryCycles ==
    ( /\ pc = "returned"
      /\ args.input_format = FMT_YN
      /\ RequiredFlag
      /\ PlainCall
      /\ invalid_reads = reads - 1
      /\ response # <<>>
      /\ response[1] = "y" )
    => ( /\ result = RetBool(TRUE)
         /\ renders = invalid_reads + 1
         /\ reads = renders )

\* C2: every row _display_prompt emits is exactly max_width characters long.
C2_BoxRectangle ==
    dp_pc = "done" => \A k \in 1..Len(dp_out) : Len(dp_out[k]) = dp_args.max_width

\* C3: line_split returns at least one line (exactly one empty line for the
\* empty text) and the returned lines concatenated in order are the text.
C3_WrapRoundTrip ==
    ls_pc = "done" =>
        /\ Len(lines) >= 1
        /\ Concat(lines) = text
        /\ (text = <<>> => lines = << <<>> >>)

C3_Witness ==
    /\ ls_pc = "done"
    /\ Len(lines) >= 3
    /\ \E k \in 1..Len(cuts) : cuts[k] = "space"
    /\ \E k \in 1..Len(cuts) : cuts[k] = "hard"

\* C4: every line line_split produces is at most max_length long, a line cut
\* without whitespace is exactly max_length long, and line_split("abc", 2)
\* is ["ab", "c"].
C4_WrapLengthBound ==
    /\ \A k \in 1..Len(lines) :
          /\ Len(lines[k]) <= max_length
          /\ (cuts[k] = "hard" => Len(lines[k]) = max_length)
    /\ (ls_pc = "done" /\ text = <<"a", "b", "c">> /\ max_length = 2
           => lines = << <<"a", "b">>, <<"c">> >>)

C4_Witness ==
    /\ ls_pc = "done"
    /\ text = <<"a", "b", "c">>
    /\ max_length = 2
    /\ cuts = <<"hard", "final">>

\* C5: for YesNo the validated response is stripped; first character y/Y
\* returns true, n/N returns false, any other first character stores the
\* y-or-n message and loops, a blank response returns None when not required
\* and stores the cannot-be-skipped message and loops when required.
C5_YesNoValidation ==
    (Validated /\ args.input_format = FMT_YN) =>
        /\ response = strip(response)
        /\ (response # <<>> /\ response[1] \in {"y", "Y"}
               => pc = "returned" /\ result = RetBool(TRUE))
        /\ (response # <<>> /\ response[1] \in {"n", "N"}
               => pc = "returned" /\ result = RetBool(FALSE))
        /\ (response # <<>> /\ response[1] \notin {"y", "Y", "n", "N"}
               => pc = "render" /\ error_message = Some(MSG_YN) /\ result = NoReturn)
        /\ (response = <<>> /\ ~RequiredFlag
               => pc = "returned" /\ result = RetNone)
        /\ (response = <<>> /\ RequiredFlag
               => pc = "render" /\ error_message = Some(MSG_SKIP) /\ result = NoReturn)

C5_Witness ==
    /\ pc = "returned"
    /\ args.input_format = FMT_YN
    /\ response = <<"Y", "e", "s">>
    /\ result = RetBool(TRUE)

\* C6: for Integer a non-empty all-digit response returns its integer value
\* ("042" gives 42), a non-empty response with a non-digit stores the
\* digits-only message and loops, a blank response returns None when not
\* required and stores the cannot-be-skipped message and loops when required.
C6_IntegerValidation ==
    (Validated /\ args.input_format = FMT_INTEGER) =>
        /\ response = strip(response)
        /\ (response # <<>> /\ AllDigits(response)
               => /\ pc = "returned"
                  /\ result.kind = "int"
                  /\ IntToStr(result.n) = DropLeadingZeros(response)
                  /\ (response = <<"0", "4", "2">> => result = RetInt(42)))
        /\ (response # <<>> /\ ~AllDigits(response)
               => pc = "render" /\ error_message = Some(MSG_DIGITS) /\ result = NoReturn)
        /\ (response = <<>> /\ ~RequiredFlag
               => pc = "returned" /\ result = RetNone)
        /\ (response = <<>> /\ RequiredFlag
               => pc = "render" /\ error_message = Some(MSG_SKIP) /\ result = NoReturn)

C6_Witness ==
    /\ pc = "returned"
    /\ args.input_format = FMT_INTEGER
    /\ response = <<"0", "4", "2">>
    /\ result = RetInt(42)

\* C7: with no input format, or the numeric placeholder, a blank response
\* of a required call stores the cannot-be-skipped message and loops; every
\* other response is returned as the stripped string, and a blank response
\* of a call that is not required returns the empty string, not None.
C7_FreeTextValidation ==
    (Validated /\ args.input_format \in {FMT_NONE, FMT_NUMERIC}) =>
        /\ response = strip(response)
        /\ (response = <<>> /\ RequiredFlag
               => pc = "render" /\ error_message = Some(MSG_SKIP) /\ result = NoReturn)
        /\ (response # <<>> \/ ~RequiredFlag
               => pc = "returned" /\ result = RetStr(response) /\ result # RetNone)

C7_Witness ==
    /\ pc = "returned"
    /\ args.input_format \in {FMT_NONE, FMT_NUMERIC}
    /\ ~RequiredFlag
    /\ response = <<>>
    /\ result = RetStr(<<>>)

\* C8: a call returns None only when its effective required flag is false
\* and the validated response is blank; with the flag true it never returns
\* None; and None is a different value from a returned empty string.
C8_SkippedReachability ==
    pc = "returned" =>
        /\ (result.kind = "None" => ~RequiredFlag /\ response = <<>>)
        /\ (RequiredFlag => result.kind # "None")
        /\ (result.kind = "str" /\ result.s = <<>> => result # RetNone)

C8_Witness ==
    /\ pc = "returned"
    /\ result = RetNone
    /\ args.required = Some(FALSE)
    /\ self.default_required

\* the entries of the screen of the given kind, as positions
Positions(kind) == {k \in 1..Len(screen) : screen[k].kind = kind}

\* C9: a validation that yields Invalid does not end the call: it stores the
\* message and goes back to the top of the loop; and the next pass prints the
\* box again and, after the box and before it reads, exactly the stored
\* message.
C9_InvalidRecoverable ==
    [][ /\ (pc = "read" /\ reads' = reads + 1 /\ ~last_outcome'.returns)
            => /\ pc' = "render"
               /\ result' = NoReturn
               /\ last_outcome'.message \in {MSG_YN, MSG_SKIP, MSG_DIGITS}
               /\ error_message' = Some(last_outcome'.message)
        /\ (pc = "render" /\ renders' = renders + 1 /\ error_message.given)
            => /\ pc' \in {"read_first", "read"}
               /\ LET errs == {k \in 1..Len(screen') : screen'[k].kind = "error"}
                      boxes == {k \in 1..Len(screen') : screen'[k].kind = "box"}
                      inputs == {k \in 1..Len(screen') : screen'[k].kind = "input"}
                  IN  /\ Cardinality(errs) = 1
                      /\ boxes # {}
                      /\ inputs # {}
                      /\ \A e \in errs :
                            /\ screen'[e].msg = error_message.value
                            /\ \A b \in boxes : b < e
                            /\ \A i \in inputs : e < i
      ]_vars

C9_Witness ==
    /\ pc \in {"read_first", "read"}
    /\ renders = 2
    /\ error_message = Some(MSG_DIGITS)
    /\ \E k \in Positions("error") : screen[k].msg = MSG_DIGITS

\* the prompt line the call is to show at every read
ClaimedPrompt ==
    IF HasInstructions(args) THEN args.instructions.value
    ELSE IF Truthy(args.menu_options)
         THEN IF RequiredFlag THEN PROMPT_MENU_REQUIRED ELSE PROMPT_MENU_OPTIONAL
    ELSE IF args.input_format = FMT_YN
         THEN IF RequiredFlag THEN PROMPT_YN_REQUIRED ELSE PROMPT_YN_OPTIONAL
    ELSE IF args.input_format = FMT_INTEGER
         THEN IF RequiredFlag THEN PROMPT_INT_REQUIRED ELSE PROMPT_INT_OPTIONAL
    ELSE IF RequiredFlag THEN PROMPT_FREE_REQUIRED ELSE PROMPT_FREE_OPTIONAL

\* C10: every prompt line shown at a read is the instructions if supplied,
\* else the selection-number prompt with menu options, else the yes/no
\* prompt for YesNo, else the digits-only prompt for Integer, else the
\* free-text prompt, each in the phrasing of the effective required flag.
C10_PromptSelection ==
    pc \in {"read_first", "read"} =>
        \A k \in Positions("input") : screen[k].msg = ClaimedPrompt

\* C11: no step of a prompt_user call changes any attribute of the instance:
\* width, max lines, the three border glyphs, default_required, app_header
\* and warn_screen_clear stay as __init__ set them, so a call made after a
\* call with a per-call width or required override finds them unchanged.
C11_ConfigReadOnly ==
    [][self' = self]_vars

C11_Witness ==
    /\ pc = "returned"
    /\ earlier_invalid
    /\ args.screen_width.given
    /\ args.screen_width.value # self.max_screen_width
    /\ args.required.given
    /\ args.required.value # self.default_required
    /\ self \in Engines

\* C12: a call returns exactly at a validation whose outcome is a value or
\* an accepted skip; it goes round the loop again only after an Invalid
\* outcome, whatever the number of passes so far; and a call that is still
\* running has been supplied only lines that are invalid for it (a line that
\* is valid for the format ends the call).
C12_Termination ==
    /\ (pc = "returned" => last_outcome.returns /\ result = last_outcome.value)
    /\ (pc = "render" /\ reads > 0 => ~last_outcome.returns /\ result = NoReturn)
    /\ (pc \in {"render", "read_first", "read"} => invalid_reads = reads)

\* the part of C12 that does not depend on which lines reach the validation
C12_ReturnsOnlyOnValid ==
    /\ (pc = "returned" => last_outcome.returns /\ result = last_outcome.value)
    /\ (pc = "render" /\ reads > 0 => ~last_outcome.returns /\ result = NoReturn)

\* the greatest element of a non-empty set of integers
Greatest(S) == CHOOSE k \in S : \A j \in S : j <= k

\* C13: a pass of line_split over a remaining text longer than max_length
\* emits remaining[0:k] for the greatest 0-based index k in 1..max_length
\* that holds whitespace and continues with remaining[k:], which begins with
\* that whitespace; with no such index it emits the first max_length
\* characters.  line_split("hello world", 7) is ["hello", " world"].
C13_WhitespacePreference ==
    [][ /\ (ls_pc = "loop" /\ Len(remaining_text) > max_length) =>
              LET K == {k \in 1..max_length : remaining_text[k + 1] \in {" ", "\t"}}
                  cut == IF K # {} THEN Greatest(K) ELSE max_length
              IN  /\ lines' = Append(lines, SubSeq(remaining_text, 1, cut))
                  /\ remaining_text' = SubSeq(remaining_text, cut + 1, Len(remaining_text))
                  /\ (K # {} => remaining_text'[1] \in {" ", "\t"})
        /\ line_split(<<"h", "e", "l", "l", "o", " ", "w", "o", "r", "l", "d">>, 7)
              = << <<"h", "e", "l", "l", "o">>, <<" ", "w", "o", "r", "l", "d">> >>
      ]_vars

C13_Witness ==
    /\ ls_pc = "done"
    /\ text = <<"a", " ", "b", "c">>
    /\ max_length = 3
    /\ lines = << <<"a">>, <<" ", "b", "c">> >>

\* the kinds of the entries of the screen, in order
ScreenKinds == [k \in 1..Len(screen) |-> screen[k].kind]

\* C14: when a call waits for input, what its current pass has done is, in
\* this order: one clear_screen call (its note, when warn is set, then the
\* clear), the application header, the rows of the box, each as wide as the
\* per-call width if given and else the configured width, the stored error
\* message if there is one, and only then the prompt(s) of the read.
C14_IterationOrder ==
    pc \in {"read_first", "read"} =>
        LET nbox == Cardinality(Positions("box"))
            ninput == Cardinality(Positions("input"))
            width == IF args.screen_width.given THEN args.screen_width.value
                     ELSE self.max_screen_width
        IN  /\ nbox >= 3
            /\ ninput >= 1
            /\ Cardinality(Positions("clear")) = 1
            /\ ScreenKinds =
                  (IF self.warn_screen_clear THEN <<"print">> ELSE <<>>)
                  \o <<"clear", "app_header">>
                  \o [k \in 1..nbox |-> "box"]
                  \o (IF error_message.given THEN <<"error">> ELSE <<>>)
                  \o [k \in 1..ninput |-> "input"]
            /\ \A k \in Positions("box") : Len(screen[k].row) = width
            /\ \A k \in Positions("error") : screen[k].msg = error_message.value

C14_Witness ==
    /\ pc = "read"
    /\ renders = 2
    /\ args.screen_width = Some(10)
    /\ self.max_screen_width = 12
    /\ self.warn_screen_clear
    /\ error_message = Some(MSG_SKIP)
    /\ Positions("error") # {}

\* C15: what a validation does with a stripped response depends only on the
\* input format, the effective required flag and the response, not on the
\* menu options; with menu options and no input format every non-empty
\* response is returned as it is, as a string.
C15_MenuDoesNotConstrain ==
    Validated =>
        LET o == Validate(args.input_format, response, RequiredFlag)
        IN  /\ IF o.returns
               THEN pc = "returned" /\ result = o.value
               ELSE pc = "render" /\ error_message = Some(o.message) /\ result = NoReturn
            /\ (Truthy(args.menu_options) /\ args.input_format = FMT_NONE /\ response # <<>>
                   => pc = "returned" /\ result = RetStr(response))

C15_Witness ==
    /\ pc = "returned"
    /\ Truthy(args.menu_options)
    /\ Len(args.menu_options.value) = 2
    /\ args.input_format = FMT_NONE
    /\ response = <<"0", "4", "2">>
    /\ result = RetStr(<<"0", "4", "2">>)

\* C16: in the box _display_prompt prints, the top and the bottom row are
\* made of the configured horizontal-border glyph only, and every row
\* between them begins and ends with the configured vertical-border glyph.
C16_BorderGlyphs ==
    (dp_pc = "done" /\ ~dp_raised) =>
        LET n == Len(dp_out)
        IN  /\ \A k \in {1, n} : \A j \in 1..Len(dp_out[k]) : dp_out[k][j] = self.h_border[1]
            /\ \A k \in 2..(n - 1) :
                  /\ dp_out[k][1] = self.v_border[1]
                  /\ dp_out[k][Len(dp_out[k])] = self.v_border[1]

\* the consecutive pieces of width w of an option text; the empty text has
\* one, empty, piece
Pieces(option, w) ==
    LET n == IF Len(option) = 0 THEN 1 ELSE (Len(option) + w - 1) \div w
    IN  [j \in 1..n |-> SubSeq(option, (j - 1) * w + 1,
                               IF j * w < Len(option) THEN j * w ELSE Len(option))]

\* the rows of option number i (1-based) between the two border columns
LayoutOfOption(option, i, w) ==
    LET pieces == Pieces(option, w)
    IN  [j \in 1..Len(pieces) |->
            IF j = 1
            THEN <<" ">> \o IntToStr(i) \o <<" ", "-", " ">> \o PadRight(pieces[1], w) \o <<" ">>
            ELSE <<" ", " ", " ", " ", " ">> \o PadRight(pieces[j], w) \o <<" ">>]

RECURSIVE LayoutOfOptions(_, _, _)
LayoutOfOptions(options, i, w) ==
    IF i > Len(options) THEN <<>>
    ELSE LayoutOfOption(options[i], i, w) \o LayoutOfOptions(options, i + 1, w)

\* C17: with options, _display_prompt prints one divider row and then, for
\* each option in list order, the option text cut into consecutive pieces of
\* width max_width - 8: the first piece on a row prefixed "i - ", each
\* further piece on a row prefixed with five spaces; every option, the empty
\* string included, gets at least one row.
C17_OptionLayout ==
    (dp_pc = "done" /\ Truthy(dp_args.options)) =>
        LET w == dp_args.max_width - 8
            above == 1 + (IF Truthy(dp_args.header)
                          THEN Len(line_split(dp_args.header.value, dp_args.max_width - 4)) + 1
                          ELSE 0)
                       + Len(line_split(dp_args.query, dp_args.max_width - 4))
            layout == LayoutOfOptions(dp_args.options.value, 1, w)
        IN  /\ ~dp_raised
            /\ Len(dp_out) = above + 1 + Len(layout) + 1
            /\ \A j \in 2..(dp_args.max_width - 1) : dp_out[above + 1][j] = self.i_border[1]
            /\ \A k \in 1..Len(layout) :
                  SubSeq(dp_out[above + 1 + k], 2, Len(dp_out[above + 1 + k]) - 1) = layout[k]
            /\ \A i \in 1..Len(dp_args.options.value) :
                  Concat(Pieces(dp_args.options.value[i], w)) = dp_args.options.value[i]

\* C17 for option lists without an empty string
C17_NonEmptyOptions ==
    (\A i \in 1..Len(dp_args.options.value) : dp_args.options.value[i] # <<>>)
        => C17_OptionLayout

\* C18: line_split terminates.  Every pass of the outer loop runs on a
\* remaining text longer than max_length, tests only 0-based indices in
\* 1..max_length, all of them inside the remaining text, and leaves a
\* shorter remaining text; once the remaining text fits in max_length the
\* loop ends; and the call reaches its return.
C18_WrapTermination ==
    /\ [][ /\ (ls_pc = "loop" /\ Len(remaining_text) > max_length) =>
                 LET sp == SplitPoint(remaining_text, max_length)
                 IN  /\ sp.read # {}
                     /\ sp.read \subseteq 1..max_length
                     /\ \A i \in sp.read : i <= Len(remaining_text) - 1
                     /\ Len(remaining_text') < Len(remaining_text)
                     /\ ls_pc' = "loop"
           /\ (ls_pc = "loop" /\ Len(remaining_text) <= max_length) => ls_pc' = "done"
           /\ ls_pc = "done" => ls_pc' = "done"
         ]_vars
    /\ <>(ls_pc = "done")

C18_Witness ==
    /\ ls_pc = "done"
    /\ text = <<"a", "b", "c", "a", "b">>
    /\ max_length = 1
    /\ Len(lines) = 5

\* C19: calls are independent.  While a call waits for input, its first
\* render shows no error message, whatever earlier calls on the instance
\* received; every later render of the call follows an Invalid response and
\* shows exactly one error message, that of the most recent Invalid response.
C19_CallsIndependent ==
    pc \in {"read_first", "read"} =>
        /\ renders = 1 =>
              /\ Positions("error") = {}
              /\ ~error_message.given
        /\ renders >= 2 =>
              /\ ~last_outcome.returns
              /\ last_outcome.message # ""
              /\ \E k \in 1..Len(screen) :
                    /\ Positions("error") = {k}
                    /\ screen[k].msg = last_outcome.message

\* a later call on an instance whose earlier call saw an Invalid response:
\* its first render is past, and it shows the message of its own second
\* Invalid response, which differs from that of its first
C19_Witness ==
    /\ earlier_invalid
    /\ pc = "read"
    /\ renders = 3
    /\ args.input_format = FMT_YN
    /\ response_required
    /\ \E k \in Positions("error") : screen[k].msg = MSG_SKIP

\* C20: presentation arguments do not affect the outcome.  When the second
\* of two calls with the same input format, the same effective required
\* flag and the same script of input lines returns, and the first returned,
\* both consumed the same number of lines, made the same number of render
\* cycles and returned the same value.
C20_PresentationIrrelevant ==
    (twin.stage = 1 /\ twin.returned /\ pc = "returned") =>
        /\ reads = twin.reads
        /\ renders = twin.renders
        /\ result = twin.result

\* the same, for two calls that both take, or both do not take, the branch
\* with two input() calls
C20_SameBranch ==
    (twin.stage = 1 /\ twin.returned /\ pc = "returned" /\ twin.twice = ReadsTwice(args)) =>
        /\ reads = twin.reads
        /\ renders = twin.renders
        /\ result = twin.result

====
